---- MODULE Spec2Model ----
(***************************************************************************)
(* A model of scripts/fetch_blog_links.py: the discovery cascade           *)
(* (content API, post-only sitemaps, generic sitemaps), the concurrent     *)
(* metadata extraction, the canonical de-duplication with the lastmod      *)
(* backfill, and the README build and write.                               *)
(*                                                                         *)
(* Strings the program slices or matches are records that carry the parts  *)
(* the code looks at:                                                      *)
(*   a URL is [scheme, host, path, slash, query]: path is the sequence of  *)
(*     its segments, slash says whether the path ends in "/", query is the *)
(*     sequence of its parameters [k, v, eq] (eq: the "=" is written);     *)
(*     the empty string is EmptyUrl.  Python's None and "" are both falsy  *)
(*     wherever the program tests them, and are one value here;            *)
(*   a timestamp is [text, d10, y4, iso]: its text, text[:10], text[:4]    *)
(*     and whether it matches ^\d{4}-\d{2}-\d{2};                          *)
(*   a description is [text, len];                                         *)
(*   a title is [text, url]: a text, or a URL used as the title.           *)
(* The network is the environment: what a fetch returns is chosen when the *)
(* resource is first fetched and kept (robots, docs), so that the same     *)
(* sitemap read twice reads the same document.                             *)
(***************************************************************************)
EXTENDS Integers, Sequences, FiniteSets, TLC

\* ------------------------------------------------------------------ bounds
\* Page indices of the content API told apart; higher ones are kept modulo 2.
MaxPage == 2
\* Items on one page of the content API.
MaxItems == 2
\* <url> entries a urlset document holds.
MaxLocs == 4

\* MAX_WORKERS (line 20) and MAX_URLS (line 23) are 8 and 10000 in the
\* source; here they are bounds of the model, small enough that a full pool
\* and a discovery result longer than MAX_URLS occur.
MAX_WORKERS == 2
MAX_URLS == 3

\* ------------------------------------------------------- program constants
\* len(desc) > 180 ; desc[:177] + "..."
DescLimit == 180
\* posts_sorted[:50]
LatestN == 50

\* ------------------------------------------------------------- sequences
Range(s) == {s[i] : i \in 1..Len(s)}

RECURSIVE AppendNew(_, _)
\* for it in items: if it not in seen: seen.add(it); out.append(it)
\* (seen is the set of the elements of out)
AppendNew(out, items) ==
  IF items = <<>> THEN out
  ELSE AppendNew(IF Head(items) \in Range(out) THEN out ELSE Append(out, Head(items)),
                 Tail(items))

unique_keep_order(items) == AppendNew(<<>>, items)

Prefix(s, n) == SubSeq(s, 1, IF Len(s) < n THEN Len(s) ELSE n)

\* ------------------------------------------------------------------ URLs
EmptyUrl == [scheme |-> "", host |-> "", path |-> <<>>, slash |-> FALSE, query |-> <<>>]

BaseHost == "cengizyilmaz.net"

\* str.lower() on the tokens of the model
Lower(s) ==
  CASE s = "HTTPS" -> "https"
    [] s = "HTTP" -> "http"
    [] s = "Cengizyilmaz.NET" -> "cengizyilmaz.net"
    [] s = "Blog" -> "blog"
    [] s = "UTM_Source" -> "utm_source"
    [] OTHER -> s

\* k.lower().startswith("utm_")
IsUtmKey(k) == Lower(k) \in {"utm_source", "utm_medium", "utm_campaign"}

RECURSIVE KeptParams(_)
\* parse_qsl(keep_blank_values=True), the utm_ filter, then urlencode: every
\* kept parameter is written back as k=v, a bare "k" becoming "k=".
KeptParams(qs) ==
  IF qs = <<>> THEN <<>>
  ELSE (IF IsUtmKey(Head(qs).k) THEN <<>>
        ELSE <<[k |-> Head(qs).k, v |-> Head(qs).v, eq |-> TRUE]>>)
       \o KeptParams(Tail(qs))

strip_utm(u) == [u EXCEPT !.query = KeptParams(u.query)]

\* A mutant of normalize_url: "/" is appended whether or not the path ends
\* in one (a second "/" is an empty last segment).
normalize_url_append(u) ==
  LET s == strip_utm(u)
  IN [s EXCEPT !.scheme = IF Lower(s.scheme) = "" THEN "https" ELSE Lower(s.scheme),
               !.host = Lower(s.host),
               !.path = IF s.slash THEN Append(s.path, "") ELSE s.path,
               !.slash = TRUE]

normalize_url(u) ==
  LET s == strip_utm(u)
  IN [s EXCEPT !.scheme = IF Lower(s.scheme) = "" THEN "https" ELSE Lower(s.scheme),
               !.host = Lower(s.host),
               !.slash = TRUE]

\* u.startswith(BASE_URL): the raw text begins "https://cengizyilmaz.net"
HostHasBasePrefix(h) == h \in {"cengizyilmaz.net", "cengizyilmaz.net.evil.io"}
StartsWithBase(u) == u.scheme = "https" /\ HostHasBasePrefix(u.host)

\* segment i of the path is followed by "/"
Closed(u, i) == i < Len(u.path) \/ u.slash

IsDigits4(s) == s \in {"2023", "2024", "1999"}
IsDigits2(s) == s \in {"05", "11"}
IsDigits(s) == IsDigits4(s) \/ IsDigits2(s) \/ s \in {"2"}
\* 20\d{2}
IsYear20(s) == s \in {"2023", "2024"}

\* re.search over POST_PATTERNS on the lowercased URL
MatchesPost(u) ==
  \E i \in 1..Len(u.path) :
     LET s == Lower(u.path[i])
     IN \/ /\ IsDigits4(s) /\ i < Len(u.path)
           /\ IsDigits2(Lower(u.path[i + 1])) /\ Closed(u, i + 1)
        \/ s \in {"blog", "post", "posts", "yazi", "yazilar"} /\ Closed(u, i)

\* re.search over EXCLUDE_PATTERNS on the lowercased URL
MatchesExclude(u) ==
  \/ \E i \in 1..Len(u.path) :
        LET s == Lower(u.path[i])
        IN \/ s \in {"tag", "kategori", "category", "etiket", "author",
                     "attachment", "amp"} /\ Closed(u, i)
           \/ /\ s = "page" /\ i + 1 = Len(u.path)
              /\ IsDigits(Lower(u.path[i + 1])) /\ u.query = <<>>
  \/ u.query # <<>> /\ Lower(u.query[1].k) = "s" /\ u.query[1].eq

is_post_url(u) == ~MatchesExclude(u) /\ MatchesPost(u)

\* sm.endswith("sitemap_index.xml")
EndsWithSitemapIndex(u) ==
  /\ u.query = <<>> /\ ~u.slash /\ u.path # <<>>
  /\ u.path[Len(u.path)] \in {"sitemap_index.xml"}

\* any(h in w.lower() for h in POST_SITEMAP_HINTS)
HasPostHint(u) ==
  \E i \in 1..Len(u.path) : Lower(u.path[i]) \in {"post-sitemap.xml", "sitemap-posts.xml"}

RECURSIVE normalize_all(_)
\* [normalize_url(u) for u in us]
normalize_all(us) ==
  IF us = <<>> THEN <<>> ELSE <<normalize_url(Head(us))>> \o normalize_all(Tail(us))

Url(segs, slash) ==
  [scheme |-> "https", host |-> BaseHost, path |-> segs, slash |-> slash, query |-> <<>>]

\* ------------------------------------------------- the site (environment)
\* Page locations that sitemaps and the content API name.
LocA == Url(<<"blog", "a">>, TRUE)
\* the same page, written without the trailing slash
LocA0 == Url(<<"blog", "a">>, FALSE)
LocB == Url(<<"2024", "05", "b">>, TRUE)
LocC == Url(<<"blog", "c">>, TRUE)
\* a taxonomy page and a page of another site
LocT == Url(<<"tag", "t">>, TRUE)
LocX == [Url(<<"blog", "x">>, TRUE) EXCEPT !.host = "other.com"]

\* Sitemap locations: the two well-known ones, and two a site may declare.
SM == Url(<<"sitemap.xml">>, FALSE)
SI == Url(<<"sitemap_index.xml">>, FALSE)
PS == Url(<<"post-sitemap.xml">>, FALSE)
MISC == Url(<<"misc-sitemap.xml">>, FALSE)
SitemapUrls == {SM, SI, PS, MISC}

NoPub == [text |-> "", d10 |-> "", y4 |-> "", iso |-> FALSE]
Stamp(text, d10, y4) == [text |-> text, d10 |-> d10, y4 |-> y4, iso |-> TRUE]
LM1 == Stamp("2024-05-01T10:00:00+00:00", "2024-05-01", "2024")
LM2 == Stamp("2024-05-02T10:00:00+00:00", "2024-05-02", "2024")
LM3 == Stamp("2024-03-09", "2024-03-09", "2024")
LM4 == Stamp("2023-11-20", "2023-11-20", "2023")
\* an in-page time: the day of LM1, another text; and one that is no ISO date
PubIso == Stamp("2024-05-01T08:30:00", "2024-05-01", "2024")
PubText == [text |-> "May 2, 2023", d10 |-> "May 2, 202", y4 |-> "May ", iso |-> FALSE]

Entry(loc, lastmod) == [loc |-> loc, lastmod |-> lastmod]
\* The <url> entries of a post sitemap are a prefix of these; the fourth is
\* the first page again, written with its slash.
PostEntries ==
  <<Entry(LocA0, LM1), Entry(LocB, LM2), Entry(LocC, LM3), Entry(LocA, LM4),
    Entry(LocB, NoPub)>>
\* The <url> entries of a sitemap of everything: a taxonomy page, a page of
\* another site, and a post with no <lastmod>.
MixedEntries == <<Entry(LocT, LM4), Entry(LocX, LM2), Entry(LocA, NoPub)>>

\* A fetched sitemap document: its <sitemap><loc> and its <url> entries.
Unfetched == [status |-> "unfetched", sitemaps |-> <<>>, urls |-> <<>>]
FailDoc == [status |-> "fail", sitemaps |-> <<>>, urls |-> <<>>]
IndexDoc(children) == [status |-> "ok", sitemaps |-> children, urls |-> <<>>]
UrlsetDoc(entries) == [status |-> "ok", sitemaps |-> <<>>, urls |-> entries]
\* What a sitemap location may serve: a failure, an index
\* of the post sitemap, an index that lists the well-known index again (a
\* cycle) beside another sitemap, or a urlset.
DocOptions ==
  {FailDoc, IndexDoc(<<PS>>), IndexDoc(<<SI, MISC>>), UrlsetDoc(MixedEntries)}
  \cup {UrlsetDoc(Prefix(PostEntries, n)) : n \in 1..MaxLocs}

\* robots.txt: unfetched, a failure, or the values of its "Sitemap:" lines
RobotsUnfetched == [status |-> "unfetched", lines |-> <<>>]
RobotsOptions ==
  {[status |-> "fail", lines |-> <<>>], [status |-> "ok", lines |-> <<>>],
   [status |-> "ok", lines |-> <<PS, SM>>]}

\* The items of the content API, in the order the endpoint lists them; an
\* item is its "link" (EmptyUrl: none).
ItemCycle == <<LocA0, LocB, LocX, LocC, EmptyUrl>>
ItemAt(i) == ItemCycle[((i - 1) % Len(ItemCycle)) + 1]
\* What one page request returns: "error" (something in the try block
\* raises: raise_for_status on a non-2xx status or a missing endpoint,
\* r.json() on a body that is no JSON, it.get on an item that is no object),
\* "nonlist" (a JSON body that is no list) or "list" with n items.
ApiResponses ==
  {[kind |-> k, n |-> 0] : k \in {"error", "nonlist"}}
  \cup {[kind |-> "list", n |-> n] : n \in 0..MaxItems}

\* ---------------------------------------------------------------- state
VARIABLES
  pc,          \* where main() is
  calls,       \* the stages discover_all_post_urls has invoked, in order
  yielded,     \* the stages that returned a non-empty result
  found,       \* len(urls) as discover_all_post_urls returned it; -1 before
  page,        \* try_fetch_all_posts_via_wpapi: params["page"]
  results,     \* try_fetch_all_posts_via_wpapi: the links of results
  apiEnd,      \* how the content-API loop ended: "error", "nonlist", "empty"
  robots,      \* the site's robots.txt, once fetched
  docs,        \* the site's sitemap documents, once fetched
  fetches,     \* sitemap GETs of the running stage, per location
  cands,       \* find_all_sitemaps(): the loop's list
  ci,          \* the loop's position in cands
  work,        \* the inner loop's list (work / children / [sm])
  wi,          \* the inner loop's position in work
  out,         \* the stage's out list (seen is its set of elements)
  ret,         \* what each stage returned to discover_all_post_urls
  walked,      \* the sitemaps the discovery stages collected from, and how
  urls,        \* main: urls
  mp,          \* sitemap_lastmods: mp, then main: lastmods
  futures,     \* main: the submitted tasks, in submission order
  raw,         \* main: raw
  order,       \* the task behind each element of raw
  posts,       \* main: posts
  file,        \* README.md as written by this run
  writes,      \* how often the output file was opened for writing
  exitCode     \* main's return value; -1 while running

vars == <<pc, calls, yielded, found, page, results, apiEnd, robots, docs, fetches,
          cands, ci, work, wi, out, ret, walked, urls, mp, futures, raw,
          order, posts, file, writes, exitCode>>

logVars == <<calls, yielded, found>>
apiVars == <<page, results, apiEnd>>
walkVars == <<cands, ci, work, wi, out>>
siteVars == <<robots, docs>>
NoFetches == [u \in SitemapUrls |-> 0]
poolVars == <<futures, raw, order>>
outVars == <<posts, file, writes, exitCode>>

NoReadme == [total |-> -1, latest |-> <<>>, years |-> <<>>]
NoRet == [wpapi |-> <<>>, post |-> <<>>, generic |-> <<>>]

Init ==
  /\ pc = "start"
  /\ calls = <<>>
  /\ yielded = {}
  /\ found = -1
  /\ page = 1 /\ results = <<>> /\ apiEnd = ""
  /\ robots = RobotsUnfetched
  /\ docs = [u \in SitemapUrls |-> Unfetched]
  /\ fetches = NoFetches
  /\ cands = <<>> /\ ci = 1 /\ work = <<>> /\ wi = 1 /\ out = <<>>
  /\ ret = NoRet
  /\ walked = {}
  /\ urls = <<>>
  /\ mp = [u \in {} |-> NoPub]
  /\ futures = <<>>
  /\ raw = <<>> /\ order = <<>>
  /\ posts = <<>>
  /\ file = NoReadme /\ writes = 0
  /\ exitCode = -1

\* ------------------------------------------------ discover_all_post_urls
\* A mutant of StageReturns: discover never returns at this stage.
StageReturnsNever(result) == FALSE

\* `if wp_posts:` / `if post_sitemap_urls:` / `if generic:`
StageReturns(result) == result # <<>>

\* main() calls discover_all_post_urls, which calls the content-API stage.
Start ==
  /\ pc = "start"
  /\ pc' = "wpapi"
  /\ calls' = <<"wpapi">>
  /\ UNCHANGED <<yielded, found, apiVars, siteVars, fetches, walkVars, ret, walked, urls, mp,
                 poolVars, outVars>>

RECURSIVE ItemsFrom(_, _)
\* the links of the n items that follow the first k items of the endpoint
ItemsFrom(k, n) == IF n = 0 THEN <<>> ELSE <<ItemAt(k + 1)>> \o ItemsFrom(k + 1, n - 1)

\* Line 284: what discover returns from the content-API result.
DiscoverFromApi(r) == unique_keep_order(r)

\* A mutant of DiscoverFromSitemaps: the locations are returned verbatim.
DiscoverVerbatim(r) == r

\* Lines 290 and 296: what discover returns from a sitemap stage's result.
DiscoverFromSitemaps(r) == unique_keep_order(normalize_all(r))

\* Lines 282-287: the content-API stage has returned r.
AfterWpapi(r) ==
  /\ ret' = [ret EXCEPT !.wpapi = r]
  /\ yielded' = IF r # <<>> THEN yielded \cup {"wpapi"} ELSE yielded
  /\ IF StageReturns(r)
       THEN /\ urls' = DiscoverFromApi(r)
            /\ pc' = "discovered"
            /\ calls' = calls
       ELSE /\ urls' = urls
            /\ pc' = "post_find"
            /\ calls' = Append(calls, "post_sitemaps")

\* A mutant of OnApiError: the except clause returns what was gathered.
OnApiErrorKeep(acc) == acc

\* Lines 165-167: what the except clause returns.
OnApiError(acc) == <<>>

\* Lines 151-152 and 168: what the stage returns after the break.
OnApiBreak(acc) == acc

\* One turn of the while loop of try_fetch_all_posts_via_wpapi: one page
\* request and what the loop does with the answer.  params["page"] grows
\* without bound in the source: indices above MaxPage are kept modulo 2, and
\* the pages the endpoint serves there repeat items it has served (it
\* ignores the index), which results already holds.  results is dropped when
\* the stage returns; page keeps the index of the last request until
\* discover_all_post_urls returns.
WpFetchPage ==
  /\ pc = "wpapi"
  /\ \E resp \in ApiResponses :
       \/ /\ resp.kind = "error"
          /\ apiEnd' = "error"
          /\ page' = page /\ results' = <<>>
          /\ AfterWpapi(OnApiError(results))
       \/ /\ resp.kind = "nonlist" \/ (resp.kind = "list" /\ resp.n = 0)
          /\ apiEnd' = IF resp.kind = "nonlist" THEN "nonlist" ELSE "empty"
          /\ page' = page /\ results' = <<>>
          /\ AfterWpapi(OnApiBreak(results))
       \/ /\ resp.kind = "list" /\ resp.n > 0
          /\ results' = IF page <= MaxPage
                          THEN results \o normalize_all(ItemsFrom(Len(results), resp.n))
                          ELSE results
          /\ page' = IF page <= MaxPage + 1 THEN page + 1 ELSE page - 1
          /\ UNCHANGED <<pc, calls, yielded, ret, urls, apiEnd>>
  /\ UNCHANGED <<found, siteVars, fetches, walkVars, walked, mp, poolVars, outVars>>

\* ---------------------------------------------------------- the sitemaps
\* What a GET of sitemap location u returns: chosen at its first fetch.
DocChoices(u) == IF docs[u] = Unfetched THEN DocOptions ELSE {docs[u]}
RobotsChoices == IF robots = RobotsUnfetched THEN RobotsOptions ELSE {robots}

\* find_sitemap_candidates_from_robots: a failed fetch gives no candidate
RobotsCandidates(r) == IF r.status = "ok" THEN r.lines ELSE <<>>

find_all_sitemaps(r) == unique_keep_order(<<SM, SI>> \o RobotsCandidates(r))

\* expand_sitemap_index on document d: a failed fetch gives no child
expand_sitemap_index(d) == IF d.status = "ok" THEN d.sitemaps ELSE <<>>

RECURSIVE EntryLocs(_)
\* the text of <loc> of every <url> that has one
EntryLocs(es) ==
  IF es = <<>> THEN <<>>
  ELSE (IF Head(es).loc # EmptyUrl THEN <<Head(es).loc>> ELSE <<>>) \o EntryLocs(Tail(es))

\* collect_urls_from_sitemap on document d: a failed fetch gives nothing;
\* with no <url> location, every <loc> of the document is taken.
collect_urls_from_sitemap(d) ==
  IF d.status # "ok" THEN <<>>
  ELSE IF EntryLocs(d.urls) # <<>> THEN EntryLocs(d.urls)
  ELSE d.sitemaps

\* A mutant of CollectInto: a failed fetch ends the walk with nothing.
CollectOrAbort(acc, d) ==
  IF d.status = "fail" THEN <<>> ELSE AppendNew(acc, collect_urls_from_sitemap(d))

\* Lines 242-245, 259-262, 264-267: the locations of document d that were
\* not seen yet join out.
CollectInto(acc, d) == AppendNew(acc, collect_urls_from_sitemap(d))

\* A mutant of WorkAfter: the sitemaps a collected document lists are walked too.
WorkAfterFollow(w, d) == w \o expand_sitemap_index(d)

\* Lines 239, 258: the list being walked is not extended by what is read.
WorkAfter(w, d) == w

\* The record of a collect: the sitemap read, the candidate that led to it,
\* and the <url> entries it held.
Walked(w, via, d) ==
  IF d.status = "ok" /\ d.urls # <<>>
    THEN walked \cup {[sm |-> w, via |-> via, urls |-> d.urls]}
    ELSE walked

\* find_all_sitemaps() at the head of a stage's loop: robots.txt is fetched.
FindSitemaps ==
  /\ pc \in {"post_find", "gen_find", "lm_find"}
  /\ \E r \in RobotsChoices :
       /\ robots' = r
       /\ cands' = find_all_sitemaps(r)
  /\ ci' = 1 /\ work' = <<>> /\ wi' = 1 /\ out' = <<>>
  /\ fetches' = NoFetches
  /\ pc' = CASE pc = "post_find" -> "post_loop"
             [] pc = "gen_find" -> "gen_loop"
             [] OTHER -> "lm_loop"
  /\ UNCHANGED <<logVars, apiVars, docs, ret, walked, urls, mp, poolVars, outVars>>

\* work = expand_sitemap_index(sm) or [sm] / `if children: ... else:`
WorkOf(sm, d) == IF expand_sitemap_index(d) # <<>> THEN expand_sitemap_index(d) ELSE <<sm>>

\* urls_from_post_sitemaps_only, lines 234-238: the next candidate's work list.
PostExpand ==
  /\ pc = "post_loop" /\ ci <= Len(cands)
  /\ LET sm == cands[ci]
     IN IF EndsWithSitemapIndex(sm)
          THEN \E d \in DocChoices(sm) :
                 /\ docs' = [docs EXCEPT ![sm] = d]
                 /\ fetches' = [fetches EXCEPT ![sm] = @ + 1]
                 /\ work' = WorkOf(sm, d)
          ELSE /\ UNCHANGED <<docs, fetches>>
               /\ work' = <<sm>>
  /\ wi' = 1
  /\ pc' = "post_work"
  /\ UNCHANGED <<logVars, apiVars, robots, cands, ci, out, ret, walked, urls, mp,
                 poolVars, outVars>>

\* Lines 239-245: one element of the work list.
PostCollect ==
  /\ pc = "post_work"
  /\ LET w == work[wi]
     IN IF HasPostHint(w)
          THEN \E d \in DocChoices(w) :
                 /\ docs' = [docs EXCEPT ![w] = d]
                 /\ fetches' = [fetches EXCEPT ![w] = @ + 1]
                 /\ out' = CollectInto(out, d)
                 /\ work' = WorkAfter(work, d)
                 /\ walked' = Walked(w, cands[ci], d)
          ELSE UNCHANGED <<docs, fetches, out, work, walked>>
  /\ IF wi < Len(work')
       THEN wi' = wi + 1 /\ UNCHANGED <<pc, ci>>
       ELSE wi' = 1 /\ ci' = ci + 1 /\ pc' = "post_loop"
  /\ UNCHANGED <<logVars, apiVars, robots, cands, ret, urls, mp, poolVars, outVars>>

\* Line 246 and lines 288-293: the stage returns (its locals are dropped),
\* discover goes on.
PostReturn ==
  /\ pc = "post_loop" /\ ci > Len(cands)
  /\ LET r == unique_keep_order(out)
     IN /\ ret' = [ret EXCEPT !.post = r]
        /\ yielded' = IF r # <<>> THEN yielded \cup {"post_sitemaps"} ELSE yielded
        /\ IF StageReturns(r)
             THEN /\ urls' = DiscoverFromSitemaps(r)
                  /\ pc' = "discovered"
                  /\ calls' = calls
             ELSE /\ urls' = urls
                  /\ pc' = "gen_find"
                  /\ calls' = Append(calls, "generic_sitemaps")
  /\ cands' = <<>> /\ ci' = 1 /\ work' = <<>> /\ wi' = 1 /\ out' = <<>>
  /\ UNCHANGED <<found, apiVars, siteVars, fetches, walked, mp, poolVars, outVars>>

\* urls_from_generic_sitemaps, lines 254-257 and 263: the next candidate.
GenExpand ==
  /\ pc = "gen_loop" /\ ci <= Len(cands)
  /\ LET sm == cands[ci]
     IN \E d \in DocChoices(sm) :
          /\ docs' = [docs EXCEPT ![sm] = d]
          /\ fetches' = [fetches EXCEPT ![sm] = @ + 1]
          /\ work' = WorkOf(sm, d)
  /\ wi' = 1
  /\ pc' = "gen_work"
  /\ UNCHANGED <<logVars, apiVars, robots, cands, ci, out, ret, walked, urls, mp,
                 poolVars, outVars>>

\* Lines 258-267: one child, or the candidate itself.
GenCollect ==
  /\ pc = "gen_work"
  /\ LET w == work[wi]
     IN \E d \in DocChoices(w) :
          /\ docs' = [docs EXCEPT ![w] = d]
          /\ fetches' = [fetches EXCEPT ![w] = @ + 1]
          /\ out' = CollectInto(out, d)
          /\ work' = WorkAfter(work, d)
          /\ walked' = Walked(w, cands[ci], d)
  /\ IF wi < Len(work')
       THEN wi' = wi + 1 /\ UNCHANGED <<pc, ci>>
       ELSE wi' = 1 /\ ci' = ci + 1 /\ pc' = "gen_loop"
  /\ UNCHANGED <<logVars, apiVars, robots, cands, ret, urls, mp, poolVars, outVars>>

RECURSIVE KeepPosts(_)
\* lines 269-270: [u for u in out if u.startswith(base_url)], then is_post_url
KeepPosts(us) ==
  IF us = <<>> THEN <<>>
  ELSE (IF StartsWithBase(Head(us)) /\ is_post_url(Head(us)) THEN <<Head(us)>> ELSE <<>>)
       \o KeepPosts(Tail(us))

\* Lines 268-271 and 294-299: the stage returns (its locals are dropped),
\* and so does discover.
GenReturn ==
  /\ pc = "gen_loop" /\ ci > Len(cands)
  /\ LET r == unique_keep_order(KeepPosts(out))
     IN /\ ret' = [ret EXCEPT !.generic = r]
        /\ yielded' = IF r # <<>> THEN yielded \cup {"generic_sitemaps"} ELSE yielded
        /\ urls' = IF StageReturns(r) THEN DiscoverFromSitemaps(r) ELSE <<>>
  /\ pc' = "discovered"
  /\ cands' = <<>> /\ ci' = 1 /\ work' = <<>> /\ wi' = 1 /\ out' = <<>>
  /\ UNCHANGED <<calls, found, apiVars, siteVars, fetches, walked, mp, poolVars, outVars>>

\* ------------------------------------------------------ sitemap_lastmods
RECURSIVE PutLastmods(_, _)
\* lines 373-380: mp[normalize_url(loc)] = lastmod for every <url> with both
PutLastmods(m, es) ==
  IF es = <<>> THEN m
  ELSE LET e == Head(es)
           k == normalize_url(e.loc)
       IN PutLastmods(IF e.loc # EmptyUrl /\ e.lastmod # NoPub
                        THEN [x \in DOMAIN m \cup {k} |-> IF x = k THEN e.lastmod ELSE m[x]]
                        ELSE m,
                      Tail(es))

\* lastmods.get(key)
GetLastmod(m, key) == IF key \in DOMAIN m THEN m[key] ELSE NoPub

\* Lines 367-380: one candidate sitemap is read.
LmRead ==
  /\ pc = "lm_loop" /\ ci <= Len(cands)
  /\ \E d \in DocChoices(cands[ci]) :
       /\ docs' = [docs EXCEPT ![cands[ci]] = d]
       /\ fetches' = [fetches EXCEPT ![cands[ci]] = @ + 1]
       /\ mp' = IF d.status = "ok" THEN PutLastmods(mp, d.urls) ELSE mp
  /\ ci' = ci + 1
  /\ UNCHANGED <<pc, logVars, apiVars, robots, cands, work, wi, out, ret, walked, urls,
                 poolVars, outVars>>

\* Line 381: the table is returned to main (line 465).  No sitemap is read
\* after this: the documents are forgotten.
LmReturn ==
  /\ pc = "lm_loop" /\ ci > Len(cands)
  /\ pc' = "submit"
  /\ cands' = <<>> /\ ci' = 1
  /\ robots' = RobotsUnfetched
  /\ docs' = [u \in SitemapUrls |-> Unfetched]
  /\ fetches' = NoFetches
  /\ UNCHANGED <<logVars, apiVars, work, wi, out, ret, walked, urls, mp, poolVars, outVars>>

\* -------------------------------------------------------------- metadata
NoDesc == [text |-> "", len |-> 0, cut |-> FALSE]
Desc(text, len) == [text |-> text, len |-> len, cut |-> FALSE]
TextTitle(t) == [text |-> t, url |-> EmptyUrl]
UrlTitle(u) == [text |-> "", url |-> u]

\* A fetched page: the elements extract_metadata looks for ("" / NoDesc /
\* NoPub / EmptyUrl: the element is missing or empty).
Page(ok, canonical, og_title, h1, title_tag, og_desc, meta_desc, para, pub_meta, time_dt) ==
  [ok |-> ok, canonical |-> canonical, og_title |-> og_title, h1 |-> h1,
   title_tag |-> title_tag, og_desc |-> og_desc, meta_desc |-> meta_desc,
   para |-> para, pub_meta |-> pub_meta, time_dt |-> time_dt]
FailedPage == Page(FALSE, EmptyUrl, "", "", "", NoDesc, NoDesc, NoDesc, NoPub, NoPub)
NoPage == [FailedPage EXCEPT !.title_tag = "unfetched"]
\* What a page location may serve: a failure; open-graph title and
\* description and no time; a canonical link to /blog/a with a heading, a
\* long first paragraph and a published time; a bare page with a <time>.
PageOptions ==
  {FailedPage,
   Page(TRUE, EmptyUrl, "Og title", "Heading", "", Desc("og text", 40), NoDesc, NoDesc,
        NoPub, NoPub),
   Page(TRUE, LocA0, "", "Heading two", "Doc title", NoDesc, NoDesc, Desc("long text", 200),
        PubIso, NoPub),
   Page(TRUE, EmptyUrl, "", "", "", NoDesc, Desc("meta text", 180), NoDesc, NoPub, PubText)}

\* re.sub(r"\s+", " ", desc).strip(), then the cut to 177 characters + "..."
CleanDesc(d) ==
  IF d = NoDesc THEN NoDesc
  ELSE IF d.len > DescLimit THEN [text |-> d.text, len |-> DescLimit, cut |-> TRUE]
  ELSE d

\* A mutant of DegradedRecord: the failed page's record has no title.
DegradedRecordNoTitle(url) ==
  [title |-> TextTitle(""), desc |-> NoDesc, pub |-> NoPub, canon |-> normalize_url(url)]

\* Lines 314-316: what extract_metadata returns when the fetch fails.
DegradedRecord(url) ==
  LET n == normalize_url(url)
  IN [title |-> UrlTitle(n), desc |-> NoDesc, pub |-> NoPub, canon |-> n]

\* extract_metadata(url), the page fetched being pg
extract_metadata(url, pg) ==
  IF ~pg.ok THEN DegradedRecord(url)
  ELSE
    LET canon == normalize_url(IF pg.canonical # EmptyUrl THEN pg.canonical ELSE url)
        title == IF pg.og_title # "" THEN TextTitle(pg.og_title)
                 ELSE IF pg.h1 # "" THEN TextTitle(pg.h1)
                 ELSE IF pg.title_tag # "" THEN TextTitle(pg.title_tag)
                 ELSE UrlTitle(canon)
        desc == IF pg.og_desc # NoDesc THEN pg.og_desc
                ELSE IF pg.meta_desc # NoDesc THEN pg.meta_desc
                ELSE pg.para
        pub == IF pg.pub_meta # NoPub THEN pg.pub_meta ELSE pg.time_dt
    IN [title |-> title, desc |-> CleanDesc(desc), pub |-> pub, canon |-> canon]

\* ------------------------------------------------------------------ main
\* A mutant of NoneDiscovered: the test for an empty discovery is missing.
NoneDiscoveredNever(us) == FALSE

\* Line 456: `if not urls`
NoneDiscovered(us) == us = <<>>

\* A mutant of CapUrls: the list is not cut.
CapUrlsNone(us) == us

\* Lines 461-462: the safety cap
CapUrls(us) == IF Len(us) > MAX_URLS THEN Prefix(us, MAX_URLS) ELSE us

\* Lines 455-462: no URL ends the run with 1; the list is cut to MAX_URLS.
\* discover_all_post_urls has returned: what its stages returned is dropped.
MainCheck ==
  /\ pc = "discovered"
  /\ found' = Len(urls)
  /\ IF NoneDiscovered(urls)
       THEN /\ exitCode' = 1
            /\ pc' = "done"
            /\ urls' = urls
       ELSE /\ exitCode' = exitCode
            /\ pc' = "lm_find"
            /\ urls' = CapUrls(urls)
  /\ ret' = NoRet
  /\ apiEnd' = ""
  /\ page' = 1
  /\ UNCHANGED <<calls, yielded, results, siteVars, fetches, walkVars, walked, mp, poolVars,
                 posts, file, writes>>

NoResult == [title |-> TextTitle(""), desc |-> NoDesc, pub |-> NoPub, canon |-> EmptyUrl]

\* Line 470: every URL is submitted to the pool, in order.
Submit ==
  /\ pc = "submit"
  /\ futures' = [i \in 1..Len(urls) |-> [state |-> "pending", page |-> NoPage, res |-> NoResult]]
  /\ pc' = "extract"
  /\ UNCHANGED <<logVars, apiVars, siteVars, fetches, walkVars, ret, walked, urls, mp, raw, order,
                 outVars>>

\* Tasks start in submission order and at most MAX_WORKERS run at once: a
\* task can be running when fewer than MAX_WORKERS unfinished tasks precede it.
CanRun(i) ==
  /\ futures[i].state = "pending"
  /\ Cardinality({j \in 1..(i - 1) : futures[j].state = "pending"}) < MAX_WORKERS

\* A worker runs extract_metadata(urls[i]) to its end: the page is fetched.
WorkerRun(i) ==
  /\ pc = "extract"
  /\ CanRun(i)
  /\ \E pg \in PageOptions :
       futures' = [futures EXCEPT ![i] = [state |-> "done", page |-> pg,
                                          res |-> extract_metadata(urls[i], pg)]]
  /\ UNCHANGED <<pc, logVars, apiVars, siteVars, fetches, walkVars, ret, walked, urls, mp, raw,
                 order, outVars>>

\* raw.append((title, canon, pub_iso, desc, canon))
RawOf(r) == [title |-> r.title, url |-> r.canon, pub |-> r.pub, desc |-> r.desc,
             canon |-> r.canon]

\* Lines 471-479: as_completed hands over a finished task; its result joins raw.
Collect(i) ==
  /\ pc = "extract"
  /\ futures[i].state = "done"
  /\ futures' = [futures EXCEPT ![i].state = "collected"]
  /\ raw' = Append(raw, RawOf(futures[i].res))
  /\ order' = Append(order, i)
  /\ UNCHANGED <<pc, logVars, apiVars, siteVars, fetches, walkVars, ret, walked, urls, mp,
                 outVars>>

\* A mutant of Backfill: a lastmod of the key replaces the extracted time.
BackfillAlways(pub, lastmods, key) ==
  IF key \in DOMAIN lastmods THEN lastmods[key] ELSE pub

\* Lines 488-489: `if not pub_iso: pub_iso = lastmods.get(key)`
Backfill(pub, lastmods, key) == IF pub = NoPub THEN GetLastmod(lastmods, key) ELSE pub

RECURSIVE MergeLoop(_, _, _)
\* Lines 484-491, the loop over raw: the first record of a key is kept, and
\* a missing time is filled from lastmods.
MergeLoop(acc, rs, lastmods) ==
  IF rs = <<>> THEN acc
  ELSE LET r == Head(rs)
           key == normalize_url(r.canon)
       IN IF \E q \in Range(acc) : q.url = key
            THEN MergeLoop(acc, Tail(rs), lastmods)
            ELSE MergeLoop(Append(acc, [title |-> r.title, url |-> key,
                                        pub |-> Backfill(r.pub, lastmods, key),
                                        desc |-> r.desc]),
                           Tail(rs), lastmods)

\* A mutant of MergePosts: the last record of a key is kept.
MergePostsLastWins(rs, lastmods) ==
  LET Rev(s) == [i \in 1..Len(s) |-> s[Len(s) + 1 - i]]
  IN Rev(MergeLoop(<<>>, Rev(rs), lastmods))

MergePosts(rs, lastmods) == MergeLoop(<<>>, rs, lastmods)

\* A mutant of PoolDrained: the loop over as_completed is left at once.
PoolDrainedEarly == TRUE

\* Lines 469-479: as_completed is exhausted and the `with` block is left
\* when every task is done and its result was taken.
PoolDrained == \A i \in 1..Len(futures) : futures[i].state = "collected"

\* The pool is left and raw is merged.
Merge ==
  /\ pc = "extract"
  /\ PoolDrained
  /\ posts' = MergePosts(raw, mp)
  /\ pc' = "write"
  /\ UNCHANGED <<logVars, apiVars, siteVars, fetches, walkVars, ret, walked, urls, mp, poolVars,
                 file, writes, exitCode>>

\* ---------------------------------------------------------- build_readme
\* The order of str on the values pub[:10] takes ("1900-01-01" is the key of
\* a record with no time).
DateRank(d10) ==
  CASE d10 = "1900-01-01" -> 0
    [] d10 = "2023-11-20" -> 1
    [] d10 = "2024-03-09" -> 2
    [] d10 = "2024-05-01" -> 3
    [] d10 = "2024-05-02" -> 4
    [] d10 = "May 2, 202" -> 5

\* The order of str on the year keys: a letter sorts after every digit.
YearRank(y) ==
  CASE y = "1999" -> 0
    [] y = "2023" -> 1
    [] y = "2024" -> 2
    [] y = "Other" -> 3

\* sort_key, lines 394-396
sort_key(p) == IF p.pub # NoPub THEN p.pub.d10 ELSE "1900-01-01"

\* re.match(r"^\d{4}-\d{2}-\d{2}", pub)
IsIsoDate(pub) == pub # NoPub /\ pub.iso

\* year_of, lines 388-392
year_of(pub, url) ==
  IF IsIsoDate(pub) THEN pub.y4
  ELSE LET hits == {i \in 1..Len(url.path) : IsYear20(url.path[i]) /\ Closed(url, i)}
       IN IF hits = {} THEN "Other"
          ELSE url.path[CHOOSE i \in hits : \A j \in hits : i <= j]

RECURSIVE InsertDesc(_, _)
\* x takes its place behind every element whose key is not smaller
InsertDesc(sorted, x) ==
  IF sorted = <<>> THEN <<x>>
  ELSE IF DateRank(sort_key(Head(sorted))) >= DateRank(sort_key(x))
         THEN <<Head(sorted)>> \o InsertDesc(Tail(sorted), x)
         ELSE <<x>> \o sorted

RECURSIVE SortedDesc(_, _)
\* sorted(posts, key=sort_key, reverse=True): a stable sort, elements of one
\* key staying in the order of posts
SortedDesc(acc, ps) ==
  IF ps = <<>> THEN acc ELSE SortedDesc(InsertDesc(acc, Head(ps)), Tail(ps))

posts_sorted(ps) == SortedDesc(<<>>, ps)

LowerUrl(u) ==
  [scheme |-> Lower(u.scheme), host |-> Lower(u.host),
   path |-> [i \in 1..Len(u.path) |-> Lower(u.path[i])], slash |-> u.slash,
   query |-> [i \in 1..Len(u.query) |-> [u.query[i] EXCEPT !.k = Lower(u.query[i].k)]]]

\* safe_title, lines 420-422: the title, or the URL without its scheme and
\* its trailing "/" (bare) when the title is empty or is the URL itself
SafeTitle(title, url) ==
  IF title.text # "" THEN [text |-> title.text, url |-> EmptyUrl, bare |-> FALSE]
  ELSE LET t == IF title.url # EmptyUrl THEN title.url ELSE url
       IN IF LowerUrl(t) = LowerUrl(url)
            THEN [text |-> "", url |-> url, bare |-> TRUE]
            ELSE [text |-> "", url |-> t, bare |-> FALSE]

\* One list line, lines 419-427.
Line(p) ==
  [date |-> IF IsIsoDate(p.pub) THEN p.pub.d10 ELSE "",
   title |-> SafeTitle(p.title, p.url), url |-> p.url, desc |-> p.desc]

RECURSIVE LinesOf(_)
LinesOf(ps) == IF ps = <<>> THEN <<>> ELSE <<Line(Head(ps))>> \o LinesOf(Tail(ps))

RECURSIVE OfYear(_, _)
\* grouped[y], lines 401-404: the records of year y in the order of ps
OfYear(ps, y) ==
  IF ps = <<>> THEN <<>>
  ELSE (IF year_of(Head(ps).pub, Head(ps).url) = y THEN <<Head(ps)>> ELSE <<>>)
       \o OfYear(Tail(ps), y)

RECURSIVE YearSections(_, _)
\* for year in sorted(grouped.keys(), reverse=True), lines 431-443
YearSections(ys, ps) ==
  IF ys = {} THEN <<>>
  ELSE LET y == CHOOSE a \in ys : \A b \in ys : YearRank(a) >= YearRank(b)
       IN <<[year |-> y, lines |-> LinesOf(OfYear(ps, y))]>>
          \o YearSections(ys \ {y}, ps)

\* build_readme(posts), without the time of the run
build_readme(ps) ==
  LET sorted == posts_sorted(ps)
      years == {year_of(sorted[i].pub, sorted[i].url) : i \in 1..Len(sorted)}
  IN [total |-> Len(ps),
      latest |-> LinesOf(Prefix(sorted, LatestN)),
      years |-> YearSections(years, sorted)]

\* Lines 493-498: the document is built and written, main returns 0.
Write ==
  /\ pc = "write"
  /\ file' = build_readme(posts)
  /\ writes' = writes + 1
  /\ exitCode' = 0
  /\ pc' = "done"
  /\ UNCHANGED <<logVars, apiVars, siteVars, fetches, walkVars, ret, walked, urls, mp, poolVars,
                 posts>>

Next ==
  \/ Start
  \/ WpFetchPage
  \/ FindSitemaps
  \/ PostExpand
  \/ PostCollect
  \/ PostReturn
  \/ GenExpand
  \/ GenCollect
  \/ GenReturn
  \/ MainCheck
  \/ LmRead
  \/ LmReturn
  \/ Submit
  \/ \E i \in 1..Len(futures) : WorkerRun(i)
  \/ \E i \in 1..Len(futures) : Collect(i)
  \/ Merge
  \/ Write

Spec == Init /\ [][Next]_vars

\* Every step the program can take is eventually taken: the interpreter
\* runs the main thread and the pool's workers until main returns.
FairSpec == Spec /\ WF_vars(Next)

\* ------------------------------------------------ the URL helpers alone
\* normalize_url and is_post_url as functions of their argument: urls holds
\* an input URL, then what normalize_url makes of it, then what
\* normalize_url makes of that; out holds the verdicts of is_post_url on the
\* elements of urls.
Param(k, v, eq) == [k |-> k, v |-> v, eq |-> eq]

\* The inputs: every scheme and host case, empty and non-empty paths with
\* and without their trailing slash, tracking and other query parameters.
UrlInputs ==
  [scheme : {"", "https", "HTTPS", "http"},
   host : {"", BaseHost, "Cengizyilmaz.NET"},
   path : {<<>>, <<"blog">>, <<"Blog", "a">>, <<"tag">>, <<"page", "2">>,
           <<"2024", "05", "b">>},
   slash : BOOLEAN,
   query : {<<>>,
            <<Param("utm_source", "x", TRUE)>>,
            <<Param("s", "x", TRUE)>>,
            <<Param("UTM_Source", "x", TRUE), Param("s", "x", TRUE)>>,
            <<Param("id", "", FALSE)>>}]

UrlInit ==
  /\ pc = "url"
  /\ urls \in {<<x>> : x \in UrlInputs}
  /\ out = <<>>
  /\ calls = <<>> /\ yielded = {} /\ found = -1
  /\ page = 1 /\ results = <<>> /\ apiEnd = ""
  /\ robots = RobotsUnfetched
  /\ docs = [u \in SitemapUrls |-> Unfetched]
  /\ fetches = NoFetches
  /\ cands = <<>> /\ ci = 1 /\ work = <<>> /\ wi = 1
  /\ ret = NoRet /\ walked = {}
  /\ mp = [u \in {} |-> NoPub]
  /\ futures = <<>> /\ raw = <<>> /\ order = <<>>
  /\ posts = <<>> /\ file = NoReadme /\ writes = 0 /\ exitCode = -1

\* normalize_url is applied to the last element of urls.
UrlNormalize ==
  /\ pc = "url" /\ Len(urls) < 3
  /\ urls' = Append(urls, normalize_url(urls[Len(urls)]))
  /\ UNCHANGED <<pc, logVars, apiVars, siteVars, fetches, walkVars, ret, walked, mp,
                 poolVars, outVars>>

\* is_post_url is applied to the next element of urls.
UrlClassify ==
  /\ pc = "url" /\ Len(out) < Len(urls)
  /\ out' = Append(out, is_post_url(urls[Len(out) + 1]))
  /\ UNCHANGED <<pc, logVars, apiVars, siteVars, fetches, cands, ci, work, wi, ret, walked,
                 urls, mp, poolVars, outVars>>

UrlNext == UrlNormalize \/ UrlClassify

UrlSpec == UrlInit /\ [][UrlNext]_vars

\* ================================================================ claims
\* Where main() is, by phase.
Discovering ==
  pc \in {"wpapi", "post_find", "post_loop", "post_work", "gen_find", "gen_loop",
          "gen_work", "discovered"}
Walking == pc \in {"post_loop", "post_work", "gen_loop", "gen_work", "lm_loop"}
Merged == pc = "write" \/ (pc = "done" /\ exitCode = 0)
Written == pc = "done" /\ exitCode = 0

StageOrder == <<"wpapi", "post_sitemaps", "generic_sitemaps">>

\* ------------------------------------------------------------------- C1
\* C1: the stages are invoked in the order content API, post-only sitemaps,
\* generic sitemaps; stage k is invoked only if every stage before it
\* returned empty; once the content API has yielded a URL no later stage is
\* invoked.  (While discover runs, yielded is read off what the stages
\* returned.)
C1_StageOrder ==
  /\ \E n \in 0..Len(StageOrder) : calls = SubSeq(StageOrder, 1, n)
  /\ \A k \in 1..Len(calls) : \A j \in 1..(k - 1) : StageOrder[j] \notin yielded
  /\ "wpapi" \in yielded => calls = <<"wpapi">>
  /\ Discovering =>
       /\ ("wpapi" \in yielded) = (ret.wpapi # <<>>)
       /\ ("post_sitemaps" \in yielded) = (ret.post # <<>>)
       /\ ("generic_sitemaps" \in yielded) = (ret.generic # <<>>)

\* The content API yielded URLs and the run went through to the end.
C1_Witness == Written /\ yielded = {"wpapi"} /\ calls = <<"wpapi">> /\ Len(posts) > 1

\* ------------------------------------------------------------------- C2
\* The content API returned nothing and the post-only stage returned L # <<>>.
PostStageWon == pc = "discovered" /\ ret.wpapi = <<>> /\ ret.post # <<>>

\* C2 as stated: discover_all_post_urls returns exactly L (the result of the
\* post-only sitemap stage): same elements, same order, same length.
C2_Verbatim == PostStageWon => urls = ret.post

\* the first position of L whose element normalizes to n
FirstIdx(L, n) ==
  CHOOSE i \in 1..Len(L) :
    /\ normalize_url(L[i]) = n
    /\ \A j \in 1..(i - 1) : normalize_url(L[j]) # n

\* C2, amended: discover_all_post_urls returns the normalized elements of L,
\* each once, in the order of their first occurrence in L; that is L itself
\* only when every element of L is already normalized.
C2_NormalizedUnique ==
  PostStageWon =>
    /\ Range(urls) = {normalize_url(x) : x \in Range(ret.post)}
    /\ \A i, j \in 1..Len(urls) : i # j => urls[i] # urls[j]
    /\ \A i, j \in 1..Len(urls) :
         i < j => FirstIdx(ret.post, urls[i]) < FirstIdx(ret.post, urls[j])
    /\ Len(urls) <= Len(ret.post)
    /\ (\A x \in Range(ret.post) : normalize_url(x) = x) => urls = ret.post

\* L holds a location and the same location without its trailing slash:
\* what discover returns is shorter than L.
C2_Witness == PostStageWon /\ Len(urls) < Len(ret.post) /\ Len(urls) > 1

\* ------------------------------------------------------------------- C3
\* the first element of raw whose canonical key is key
FirstRaw(key) ==
  raw[CHOOSE k \in 1..Len(raw) :
        /\ normalize_url(raw[k].canon) = key
        /\ \A j \in 1..(k - 1) : normalize_url(raw[j].canon) # key]

\* C3: after the merge no two records have the same normalized URL, every
\* canonical key of raw has its record, and the record of a key carries the
\* title, the description and the time of the first element of raw with
\* that key (the time being looked up in lastmods when that element has
\* none).
C3_FirstWins ==
  Merged =>
    /\ \A i, j \in 1..Len(posts) : i # j => posts[i].url # posts[j].url
    /\ {posts[i].url : i \in 1..Len(posts)}
         = {normalize_url(raw[k].canon) : k \in 1..Len(raw)}
    /\ \A i \in 1..Len(posts) :
         LET f == FirstRaw(posts[i].url)
         IN /\ posts[i].title = f.title
            /\ posts[i].desc = f.desc
            /\ posts[i].pub = IF f.pub # NoPub THEN f.pub ELSE GetLastmod(mp, posts[i].url)

\* Two results share a canonical key and differ in their titles.
C3_Witness ==
  /\ Merged
  /\ \E j, k \in 1..Len(raw) :
       /\ j < k
       /\ normalize_url(raw[j].canon) = normalize_url(raw[k].canon)
       /\ raw[j].title # raw[k].title
       /\ raw[j].pub # raw[k].pub

\* ------------------------------------------------------------------- C4
\* the results of the tasks, in the order the tasks were submitted
InSubmissionOrder == [i \in 1..Len(futures) |-> RawOf(futures[i].res)]

\* C4 as stated: the records and the document are the same for every order
\* in which the tasks complete, so they are those of the run in which the
\* tasks complete in the order of their submission.
C4_OrderIndependent ==
  Written =>
    /\ posts = MergePosts(InSubmissionOrder, mp)
    /\ file = build_readme(MergePosts(InSubmissionOrder, mp))

\* ------------------------------------------------------------------- C5
\* an index that lists itself
Cyclic(u) == docs[u].status = "ok" /\ u \in Range(docs[u].sitemaps)

\* the <url> locations of the documents in W that were fetched successfully
LocsOf(W) ==
  UNION {Range(EntryLocs(docs[w].urls)) : w \in {x \in W : docs[x].status = "ok"}}

C6_PaginationStops == <>(pc # "start" /\ pc # "wpapi")

\* ------------------------------------------------------------------- C7
\* C7 as stated: a content-API stage that ended on a failure (an error, or a
\* body that is no list, on any page) returned empty, and discover went on to
\* the post-only sitemap stage.
C7_FailureIsEmpty ==
  apiEnd \in {"error", "nonlist"} =>
    ret.wpapi = <<>> /\ Len(calls) >= 2 /\ calls[2] = "post_sitemaps"

\* ------------------------------------------------------------------- C8
\* the sitemaps the post-only stage collects from, given robots.txt and the
\* documents
PostWalked ==
  {w \in SitemapUrls :
     /\ HasPostHint(w)
     /\ \E sm \in Range(find_all_sitemaps(robots)) :
          w \in Range(IF EndsWithSitemapIndex(sm) THEN WorkOf(sm, docs[sm]) ELSE <<sm>>)}

\* the sitemaps the generic stage collects from
GenWalked ==
  {w \in SitemapUrls :
     \E sm \in Range(find_all_sitemaps(robots)) : w \in Range(WorkOf(sm, docs[sm]))}

\* C8: a sitemap stage returns every <url> location of every sitemap it
\* collected from whose fetch succeeded, whichever other fetches failed (the
\* generic stage: every such location on the site that is a post URL), and
\* nothing else.
C8_FailuresIsolated ==
  /\ (pc \in {"gen_find", "gen_loop", "gen_work"}
      \/ (pc = "discovered" /\ "post_sitemaps" \in Range(calls)))
     => /\ LocsOf(PostWalked) \subseteq Range(ret.post)
        /\ \A x \in Range(ret.post) :
             \E w \in PostWalked : x \in Range(collect_urls_from_sitemap(docs[w]))
  /\ (pc = "discovered" /\ "generic_sitemaps" \in Range(calls))
     => /\ {x \in LocsOf(GenWalked) : StartsWithBase(x) /\ is_post_url(x)}
             \subseteq Range(ret.generic)
        /\ \A x \in Range(ret.generic) :
             /\ StartsWithBase(x) /\ is_post_url(x)
             /\ \E w \in GenWalked : x \in Range(collect_urls_from_sitemap(docs[w]))

\* The generic stage returned locations although a sitemap it fetched before
\* the one that held them had failed.
C8_Witness ==
  /\ pc = "discovered" /\ ret.generic # <<>>
  /\ docs[SM] = FailDoc /\ fetches[SM] > 0
  /\ \E w \in GenWalked : docs[w] = FailDoc

\* ------------------------------------------------------------------- C9
AllCollected ==
  /\ pc \in {"extract", "write", "done"} /\ futures # <<>>
  /\ \A i \in 1..Len(futures) : futures[i].state = "collected"

\* C9: the pool is never stuck; when every task is collected raw holds one
\* result per submitted URL; the result of a URL whose page fetch failed is
\* (normalized URL, no description, no time, normalized URL); the result of
\* any other URL is what extract_metadata makes of that URL and its own
\* page, whichever other fetches failed.
C9_FailureIsLocal ==
  /\ pc = "extract" =>
       \/ \E i \in 1..Len(futures) : CanRun(i) \/ futures[i].state = "done"
       \/ \A i \in 1..Len(futures) : futures[i].state = "collected"
  /\ AllCollected =>
       /\ Len(raw) = Len(urls) /\ Len(order) = Len(urls)
       /\ Range(order) = 1..Len(urls)
       /\ \A k \in 1..Len(raw) :
            LET i == order[k]
                n == normalize_url(urls[i])
            IN IF ~futures[i].page.ok
                 THEN raw[k] = [title |-> UrlTitle(n), url |-> n, pub |-> NoPub,
                                desc |-> NoDesc, canon |-> n]
                 ELSE raw[k] = RawOf(extract_metadata(urls[i], futures[i].page))

\* Some page fetches failed, others did not, and the run wrote its document.
C9_Witness ==
  /\ Written /\ AllCollected /\ Len(futures) > 2
  /\ \E i, j \in 1..Len(futures) : ~futures[i].page.ok /\ futures[j].page.ok
  /\ \E k \in 1..Len(posts) : posts[k].title.url # EmptyUrl

\* ------------------------------------------------------------------ C10
\* /sitemap_index.xml led to /post-sitemap.xml, which held three <url>
\* entries with distinct <loc> and <lastmod>; these are the discovered URLs;
\* no page carried a published time; one page fetch failed.
C10_Scenario ==
  /\ Written /\ yielded = {"post_sitemaps"}
  /\ [sm |-> PS, via |-> SI, urls |-> Prefix(PostEntries, 3)] \in walked
  /\ Len(urls) = 3
  /\ \A i \in 1..Len(futures) :
       futures[i].page.pub_meta = NoPub /\ futures[i].page.time_dt = NoPub
  /\ Cardinality({i \in 1..Len(futures) : ~futures[i].page.ok}) = 1

\* C10 as stated: in that scenario the run produces 3 records, each carries
\* the <lastmod> of its sitemap entry as its time, and all are in the year
\* section of that <lastmod>.
C10_LastmodBackfill ==
  C10_Scenario =>
    /\ Len(posts) = 3
    /\ \A i \in 1..Len(posts) :
         \E k \in 1..3 :
           /\ normalize_url(PostEntries[k].loc) = posts[i].url
           /\ posts[i].pub = PostEntries[k].lastmod
           /\ year_of(posts[i].pub, posts[i].url) = PostEntries[k].lastmod.y4
    /\ Len(file.years) = 1 /\ file.years[1].year = "2024"
    /\ Len(file.years[1].lines) = 3

\* ------------------------------------------------------------------ C11
\* What /feed serves in the scenario of C11: two items, with these links.
\* No statement of the program requests a feed.
FeedItems == <<LocA, LocB>>

\* discover_all_post_urls has returned; the content API raised, the fetch
\* of robots.txt failed, and every sitemap fetch failed.
C11_Scenario ==
  /\ pc = "discovered" /\ apiEnd = "error"
  /\ robots.status = "fail"
  /\ \A u \in SitemapUrls : docs[u].status # "ok"
  /\ \E u \in SitemapUrls : docs[u].status = "fail"

\* C11 as stated: in that scenario, with /feed serving two items, discovery
\* falls through to a feed stage and returns the two links, so that the run
\* ends with 2 records.
C11_FeedFallthrough ==
  C11_Scenario => /\ Len(urls) = Len(FeedItems)
                  /\ Range(urls) = Range(normalize_all(FeedItems))

\* ------------------------------------------------------------------ C12
\* C12: main has returned exactly when it has a return value; it returns 1
\* exactly when every stage of the discovery yielded nothing, and then the
\* output file was never written; it returns 0 exactly when a stage yielded
\* URLs, and then the document was written, once; no write precedes the
\* return value.
C12_ExitWriteCoupled ==
  /\ exitCode \in {-1, 0, 1}
  /\ (pc = "done") = (exitCode # -1)
  /\ (pc = "done" /\ yielded = {}) => exitCode = 1
  /\ (pc = "done" /\ yielded # {}) => exitCode = 0
  /\ exitCode = 1 =>
       /\ writes = 0 /\ file = NoReadme
       /\ yielded = {} /\ calls = StageOrder /\ found = 0
  /\ exitCode = 0 => writes = 1 /\ file # NoReadme /\ found > 0
  /\ exitCode = -1 => writes = 0 /\ file = NoReadme

\* Every stage was tried, none yielded a URL, and main returned 1.
C12_Witness ==
  /\ pc = "done" /\ exitCode = 1 /\ calls = StageOrder
  /\ robots.status = "ok" /\ \E u \in SitemapUrls : docs[u].status = "ok"

\* ------------------------------------------------------------------ C13
\* C13: the output file is written at most once; when it has been written,
\* every submitted task had completed and its result had been taken, posts
\* was the finished merge of raw, and what was written is the document built
\* from posts; before main returns nothing is written.
C13_SingleLateWrite ==
  /\ writes \in {0, 1}
  /\ writes = 1 =>
       /\ pc = "done" /\ AllCollected
       /\ Len(futures) = Len(urls) /\ Len(raw) = Len(futures)
       /\ posts = MergePosts(raw, mp)
       /\ file = build_readme(posts)
  /\ pc # "done" => writes = 0 /\ file = NoReadme

\* The document was written after three tasks, not all of which completed
\* in the order of their submission.
C13_Witness ==
  /\ writes = 1 /\ Len(futures) > 2
  /\ \E k \in 1..Len(order) : order[k] # k

\* ------------------------------------------------------------------ C14
\* u has the scheme and the host of BASE_URL
SameOrigin(u) == Lower(u.scheme) = "https" /\ Lower(u.host) = BaseHost

\* C14 as stated: whichever stage succeeded, every URL of the list
\* discover_all_post_urls returns has the origin of BASE_URL, and the list
\* has no duplicates.
C14_SameOriginUnique ==
  pc = "discovered" =>
    /\ \A i \in 1..Len(urls) : SameOrigin(urls[i])
    /\ \A i, j \in 1..Len(urls) : i # j => urls[i] # urls[j]

\* The post-only sitemap stage succeeded and discover_all_post_urls returned
\* a URL of another site.
C14_Witness ==
  /\ pc = "discovered" /\ yielded = {"post_sitemaps"}
  /\ \E i \in 1..Len(urls) : ~SameOrigin(urls[i])

\* ------------------------------------------------------------------ C15
\* C15: at most MAX_URLS tasks are submitted, results taken and records
\* made; the tasks are those of urls, which holds min(found, MAX_URLS)
\* elements; and the step in which main takes the discovered list on keeps
\* its first MAX_URLS elements, in their order.
C15_UrlCap ==
  /\ [](/\ Len(futures) <= MAX_URLS /\ Len(raw) <= MAX_URLS /\ Len(posts) <= MAX_URLS
        /\ found >= 0 =>
             Len(urls) = IF found > MAX_URLS THEN MAX_URLS ELSE found
        /\ pc \in {"extract", "write"} \/ Written => Len(futures) = Len(urls))
  /\ [][(pc = "discovered" /\ pc' # "discovered") => urls' = Prefix(urls, MAX_URLS)]_vars

\* Discovery returned more than MAX_URLS URLs and the run wrote its document.
C15_Witness == Written /\ found > MAX_URLS /\ Len(futures) = MAX_URLS

\* ------------------------------------------------------------------ C16
\* C16: normalize_url applied to a normalized URL returns it unchanged, so
\* the key main computes from a normalized canonical URL is that URL.
C16_Idempotent ==
  /\ Len(urls) = 3 => urls[3] = urls[2]
  /\ Len(urls) >= 2 => normalize_url(urls[2]) = urls[2]

\* An input with an upper-case scheme and host, no trailing slash, and a
\* tracking parameter before another one has been normalized twice.
C16_Witness ==
  /\ pc = "url" /\ Len(urls) = 3
  /\ urls[1].scheme = "HTTPS" /\ urls[1].host = "Cengizyilmaz.NET"
  /\ ~urls[1].slash /\ urls[1].path # <<>>
  /\ Len(urls[1].query) = 2 /\ Len(urls[2].query) = 1
  /\ urls[2] # urls[1]

\* ------------------------------------------------------------------ C17
\* C17 as stated: is_post_url gives the same verdict on a URL and on what
\* normalize_url makes of it.
C17_ClassifyCommutes ==
  (pc = "url" /\ Len(out) >= 2) => out[1] = out[2]

\* A URL and its normalized form have both been classified.
C17_Witness == pc = "url" /\ Len(out) >= 2 /\ urls[1] # urls[2] /\ out[2]

\* ------------------------------------------------------------------ C18
\* S and the sitemaps the documents of S list
WithChildren(S) == S \cup UNION {Range(expand_sitemap_index(docs[u])) : u \in S}

\* the sitemaps reachable from S through index documents (four locations:
\* three steps reach them all)
Reach(S) == WithChildren(WithChildren(WithChildren(S)))

\* no index document reaches itself
Acyclic ==
  \A u \in SitemapUrls : u \notin Reach(Range(expand_sitemap_index(docs[u])))

PostStageReturned ==
  pc \in {"gen_find", "gen_loop", "gen_work"}
  \/ (pc = "discovered" /\ "post_sitemaps" \in Range(calls))

GenStageReturned == pc = "discovered" /\ "generic_sitemaps" \in Range(calls)

\* C18 as stated: on an acyclic tree a sitemap stage returns no sitemap's
\* own location as a page location, and the generic stage has read every
\* sitemap reachable from its candidates and returns the post locations of
\* every urlset among them.
C18_RecursiveExpansion ==
  /\ (PostStageReturned /\ Acyclic) =>
       \A x \in Range(ret.post) : x \notin SitemapUrls
  /\ (GenStageReturned /\ Acyclic) =>
       /\ \A x \in Range(ret.generic) : x \notin SitemapUrls
       /\ \A w \in Reach(Range(find_all_sitemaps(robots))) :
            /\ docs[w] # Unfetched
            /\ \A x \in LocsOf({w}) :
                 StartsWithBase(x) /\ is_post_url(x) => x \in Range(ret.generic)

\* The generic stage has returned; /sitemap.xml lists an index that lists
\* /post-sitemap.xml, which no stage has read.
C18_Witness ==
  /\ GenStageReturned /\ Acyclic
  /\ docs[SM] = IndexDoc(<<SI, MISC>>) /\ docs[MISC] = IndexDoc(<<PS>>)
  /\ docs[PS] = Unfetched

\* ------------------------------------------------------------------ C19
\* C19: in the merge a record keeps the time its result carries, whatever
\* lastmods holds; a record whose result carries none gets the value
\* lastmods holds for its key, or none when lastmods has no such key; its
\* title and description are those of the result and its URL is the
\* normalized canonical URL of the result.
C19_BackfillFillsGaps ==
  Merged =>
    \A i \in 1..Len(posts) :
      LET f == FirstRaw(posts[i].url)
          key == normalize_url(f.canon)
      IN /\ posts[i].url = key
         /\ posts[i].title = f.title /\ posts[i].desc = f.desc
         /\ f.pub # NoPub => posts[i].pub = f.pub
         /\ (f.pub = NoPub /\ key \in DOMAIN mp) => posts[i].pub = mp[key]
         /\ (f.pub = NoPub /\ key \notin DOMAIN mp) => posts[i].pub = NoPub

\* One record kept its own time although lastmods holds another for its
\* key, one record was given its time by lastmods, and one has no time.
C19_Witness ==
  /\ Merged
  /\ \E i \in 1..Len(posts) :
       /\ posts[i].url \in DOMAIN mp
       /\ FirstRaw(posts[i].url).pub # NoPub
       /\ mp[posts[i].url] # posts[i].pub
  /\ \E i \in 1..Len(posts) :
       /\ posts[i].url \in DOMAIN mp
       /\ FirstRaw(posts[i].url).pub = NoPub
       /\ posts[i].pub # NoPub
  /\ \E i \in 1..Len(posts) : posts[i].pub = NoPub

\* ------------------------------------------------------------------ C20
\* C20: while the content-API stage runs, results holds the items of every
\* page requested so far (of the first MaxPage pages), in order; the stage returns either nothing or all
\* of results; when a request raises, on whatever page, it returns nothing
\* and discover goes on to the post-only sitemap stage; when the loop ends
\* on an empty page (or a body that is no list) it returns all of results,
\* and discover returns them if there are any.
C20_AllOrNothing ==
  /\ [](pc = "wpapi" => results = normalize_all(ItemsFrom(0, Len(results))))
  /\ [][(pc = "wpapi" /\ pc' # "wpapi") =>
          /\ ret'.wpapi = <<>> \/ ret'.wpapi = results
          /\ apiEnd' = "error" =>
               /\ ret'.wpapi = <<>>
               /\ pc' = "post_find"
               /\ calls' = <<"wpapi", "post_sitemaps">>
          /\ apiEnd' \in {"empty", "nonlist"} => ret'.wpapi = results
          /\ ret'.wpapi # <<>> =>
               /\ pc' = "discovered"
               /\ urls' = unique_keep_order(results)]_vars

\* A request raised after earlier pages had returned items: the stage
\* returned nothing and the post-only sitemap stage is next.
C20_Witness ==
  /\ pc = "post_find" /\ apiEnd = "error" /\ page > 1
  /\ ret.wpapi = <<>> /\ calls = <<"wpapi", "post_sitemaps">>

====
